---------------------------- MODULE Spec2Model ----------------------------
(***************************************************************************)
(* PM-Assistant: the Snowflake MCP server's query handler                  *)
(* (snowflake-mcp/server.py) and the line-oriented JSON-RPC driver         *)
(* (run_mcp_tool.py), as state machines.                                   *)
(*                                                                         *)
(* Spec       : run_saved_query, one invocation after another, against a   *)
(*              warehouse connector that may fail at every call.           *)
(* ToolsSpec  : the two tools of the server, list_saved_queries and        *)
(*              run_saved_query, invoked one after another in any order.   *)
(* IlikeSpec  : the helper _normalize_ilike applied to a pattern.          *)
(* DriverSpec : main() of the driver against a server process that answers *)
(*              its requests in order, may write other lines to its stdout *)
(*              and writes log output to its stderr.                       *)
(***************************************************************************)
EXTENDS Integers, Sequences, FiniteSets, TLC

VARIABLES
    \* ---- server.py ----
    queries,      \* the module-level dict QUERIES
    environ,      \* os.environ["SNOWFLAKE_AUTHENTICATOR"], or Unset
    pc,           \* position inside run_saved_query
    call,         \* the arguments of the invocation: query_id, params, max_rows
    sql,          \* local sql
    max_rows,     \* local max_rows after line 115
    conn,         \* the connection of this invocation: "none", "open", "closed"
    cur,          \* the cursor of this invocation: "none", "open", "closed"
    resultset,    \* what the cursor holds after execute: description and rows
    cols,         \* local cols
    pending,      \* a return value or an exception travelling out of the with blocks
    result,       \* what the invocation returned (or the exception it raised)
    calls,        \* the collaborator calls of this invocation
    execSeen,     \* every (query_id, sql, binds) cursor.execute was called with so far
    varied,       \* two invocations in a row reached execute with other params and max_rows
    \* ---- run_mcp_tool.py ----
    dpc,          \* position inside main
    stdin,        \* requests written to the server's stdin, not yet read by it
    stdout,       \* lines written by the server to its stdout, not yet read
    srv,          \* the server process: alive, requests answered, other lines written
    rawline,      \* the last value of process.stdout.readline()
    consumed,     \* the lines the current read_rpc_response call has read
    responses,    \* init_response, list_tools_response, run_query_response
    sent,         \* ids of the requests written so far, in order
    \* ---- server.py, beside run_saved_query ----
    listFirst,    \* what the first list_saved_queries call returned
    listLast,     \* what the latest list_saved_queries call returned
    sinceList,    \* run_saved_query was invoked after the latest list_saved_queries
    between,      \* outcomes of run_saved_query invocations made between two list calls
    ipattern,     \* the argument of _normalize_ilike
    iresult       \* what _normalize_ilike returned

svars == <<queries, environ, pc, call, sql, max_rows, conn, cur, resultset, cols,
           pending, result, calls, execSeen, varied>>
hvars == <<execSeen, varied>>
dvars == <<dpc, stdin, stdout, srv, rawline, consumed, responses, sent>>
lvars == <<listFirst, listLast, sinceList, between>>
ivars == <<ipattern, iresult>>
ovars == <<lvars, ivars>>
vars == <<svars, dvars, ovars>>

-----------------------------------------------------------------------------
(* Bounds of the model *)

\* result sets hold up to SmallRows + 1 rows (besides the ones around the cap)
SmallRows == 2
\* a result set has up to MaxCols columns
MaxCols == 2
\* a traceback has up to TracebackTail + MaxExtraTb lines
MaxExtraTb == 3
\* the server writes up to MaxNoise lines that are not responses
MaxNoise == 2
\* the stderr pipe of the server holds up to StderrCapacity chunks of output
StderrCapacity == 1
\* a pattern given to _normalize_ilike has up to MaxPatLen characters
MaxPatLen == 3

(* Program constants *)
RowLimitCap == 5000
DefaultMaxRows == 500
TracebackTail == 20

Min(a, b) == IF a < b THEN a ELSE b
Max(a, b) == IF a > b THEN a ELSE b

None == [py |-> "None"]

-----------------------------------------------------------------------------
(* server.py *)

BasicQuerySql == "SELECT CURRENT_USER() AS user, CURRENT_ROLE() AS role, CURRENT_WAREHOUSE() AS warehouse, CURRENT_DATABASE() AS database, CURRENT_SCHEMA() AS schema;"

QUERIESWithConnectorUsage ==
    [basic_query |-> BasicQuerySql, connector_usage |-> "SELECT CONNECTOR, USES"]
QUERIES == [basic_query |-> BasicQuerySql]

\* The query ids the model calls with, in Python's string order.
IdOrder == <<"basic_query", "connector_usage", "does_not_exist">>
QueryIds == {IdOrder[i] : i \in 1..Len(IdOrder)}
Rank(s) == CHOOSE i \in 1..Len(IdOrder) : IdOrder[i] = s

\* sorted(d.keys())
RECURSIVE SortedSeq(_)
SortedSeq(S) ==
    IF S = {} THEN <<>>
    ELSE LET m == CHOOSE x \in S : \A y \in S : Rank(x) <= Rank(y)
         IN  <<m>> \o SortedSeq(S \ {m})
SortedKeys(d) == SortedSeq(DOMAIN d)

\* params: None, {} or a dict; a dict is a function from its keys
EmptyDict == [k \in {} |-> 0]
MonthYear == [month |-> 1, year |-> 2026]
ParamsInputs == {None, EmptyDict, MonthYear}
\* params or {}
OrEmpty(p) == IF p = None \/ p = EmptyDict THEN EmptyDict ELSE p

\* max_rows: an int, or a value int() rejects
PyInt(n) == [py |-> "int", v |-> n]
PyStr(s) == [py |-> "str", v |-> s]
MaxRowsInputs ==
    {PyInt(n) : n \in (-1..SmallRows) \cup
                      {DefaultMaxRows, RowLimitCap, RowLimitCap + 1}}
    \cup {PyStr("many")}
IntOk(x) == x.py = "int"

\* max(1, min(int(max_rows), 5000))
ClampRowsNoFloor(n) == Min(n, RowLimitCap)
ClampRows(n) == Max(1, Min(n, RowLimitCap))


\* "query_id not in QUERIES" (line 111)
UnknownQuery(q) == q \notin DOMAIN queries

\* the dict returned at line 112
UnknownResultNoId(q) ==
    [ok |-> FALSE,
     error |-> "Unknown query_id",
     allowed |-> SortedKeys(queries)]
UnknownResult(q) ==
    [ok |-> FALSE,
     error |-> "Unknown query_id '" \o q \o "'",
     allowed |-> SortedKeys(queries)]

\* An exception: its class, str(e), and the lines of its formatted traceback
Exc(type, msg, n) ==
    [type |-> type, msg |-> msg, tb |-> [i \in 1..n |-> i]]
TbLens == {3, TracebackTail, TracebackTail + MaxExtraTb}

\* the classes "except Exception" catches (line 133)
ExceptionClasses ==
    {"ValueError", "TypeError", "KeyError", "DatabaseError", "OperationalError",
     "ProgrammingError", "InterfaceError"}
CaughtValueErrorOnly(e) == e.type = "ValueError"
Caught(e) == e.type \in ExceptionClasses

\* seq[-20:]
LastLines(seq) == SubSeq(seq, Max(1, Len(seq) - TracebackTail + 1), Len(seq))

\* the dict returned at lines 134-140
FailureResult(q, e) ==
    [ok |-> FALSE,
     query_id |-> q,
     error_type |-> e.type,
     error |-> e.msg,
     traceback_tail |-> LastLines(e.tb)]

\* the dict returned at lines 124-132
SuccessResult(q, p, c, rows, limit) ==
    [ok |-> TRUE,
     query_id |-> q,
     params_used |-> OrEmpty(p),
     columns |-> c,
     rows |-> rows,
     row_count_returned |-> Len(rows),
     row_limit |-> limit]

\* os.environ.get("SNOWFLAKE_AUTHENTICATOR", "externalbrowser") (line 44)
Unset == "<unset>"
EnvValues == {Unset, "externalbrowser", "password"}
AuthenticatorIgnoresEnv(env) == "externalbrowser"
Authenticator(env) == IF env = Unset THEN "externalbrowser" ELSE env
AuthenticatorError(a) ==
    "SSO-only server: SNOWFLAKE_AUTHENTICATOR must be 'externalbrowser' (got '"
        \o a \o "')"

\* The cursor after execute: cursor.description (None, or one 7-tuple per
\* column, of which the model keeps name and type_code) and the number of rows
\* the statement produced.  Every row has one value per column.
ColName(i) == IF i = 1 THEN "USER" ELSE IF i = 2 THEN "ROLE" ELSE "WAREHOUSE"
PyList(items) == [py |-> "list", items |-> items]
Description(w) == PyList([i \in 1..w |-> <<ColName(i), i>>])
RowCounts == (0..SmallRows + 1) \cup {RowLimitCap, RowLimitCap + 1}
ResultSets ==
    {[description |-> Description(w), avail |-> n] : w \in 0..MaxCols, n \in RowCounts}
    \cup {[description |-> None, avail |-> 0]}
Width(rs) == IF rs.description = None THEN 0 ELSE Len(rs.description.items)

\* [c[0] for c in cur.description] if cur.description else []  (line 122)
Truthy(d) == d # None /\ d.items # <<>>
ColumnNames(d) ==
    IF Truthy(d) THEN [i \in 1..Len(d.items) |-> d.items[i][1]] ELSE <<>>

\* cursor.fetchmany(size): the next rows, at most size of them
FetchAll(rs, size) ==
    [i \in 1..rs.avail |-> [j \in 1..Width(rs) |-> i]]
FetchMany(rs, size) ==
    [i \in 1..Min(size, rs.avail) |-> [j \in 1..Width(rs) |-> i]]

\* sql = QUERIES[query_id] (line 114)
SqlInjected(q, p) ==
    IF p = MonthYear THEN queries[q] \o " WHERE month = 1 AND year = 2026"
    ELSE queries[q]
SqlFor(q, p) == queries[q]

\* binds = None (line 118)
Binds(q, p) == None

\* what leaving a with block does to the connection or cursor it manages:
\* __exit__ runs and closes it, whether the block returned or raised
ExitOnlyOnError(state, pend) == IF pend.kind = "return" THEN state ELSE "closed"
ExitLeakOnError(state, pend) == IF pend.kind = "raise" THEN state ELSE "closed"
AfterExit(state, pend) == "closed"

\* what the two reads of QUERIES (query_id not in QUERIES, QUERIES[query_id])
\* leave in the dict: a plain dict is not changed by a lookup
AfterSetdefault(d, q) == IF q \in DOMAIN d THEN d ELSE (q :> "") @@ d
AfterLookup(d, q) == d

NotYet == [py |-> "unassigned"]

NoCalls == [connect |-> 0, net |-> 0, authenticator |-> "", cursor |-> 0,
            execute |-> <<>>, fetch |-> <<>>]
NoCall == [query_id |-> "", params |-> None, max_rows |-> PyInt(DefaultMaxRows)]
NoPending == [kind |-> "none"]
Return(v) == [kind |-> "return", value |-> v]
Raise(e) == [kind |-> "raise", exc |-> e]

ServerInit ==
    /\ queries = QUERIES
    /\ environ \in EnvValues
    /\ pc = "idle"
    /\ call = NoCall
    /\ sql = ""
    /\ max_rows = 0
    /\ conn = "none"
    /\ cur = "none"
    /\ resultset = None
    /\ cols = <<>>
    /\ pending = NoPending
    /\ result = None
    /\ calls = NoCalls
    /\ execSeen = {}
    /\ varied = FALSE

\* run_saved_query(query_id, params, max_rows) is entered: lines 111-115
Enter(q, p, m) ==
    /\ pc \in {"idle", "returned", "raised"}
    /\ call' = [query_id |-> q, params |-> p, max_rows |-> m]
    /\ calls' = NoCalls
    /\ varied' = (varied \/ (/\ calls.execute # <<>>
                              /\ q = call.query_id
                              /\ p # call.params
                              /\ m # call.max_rows))
    /\ UNCHANGED execSeen
    /\ conn' = "none"
    /\ cur' = "none"
    /\ resultset' = None
    /\ cols' = <<>>
    /\ pending' = NoPending
    /\ IF UnknownQuery(q)
       THEN /\ result' = UnknownResult(q)
            /\ pc' = "returned"
            /\ UNCHANGED <<sql, max_rows>>
       ELSE /\ sql' = SqlFor(q, p)
            /\ IF IntOk(m)
               THEN /\ max_rows' = ClampRows(m.v)
                    /\ result' = None
                    /\ pc' = "connect"
               ELSE \* int(max_rows) raises before the try block is entered
                    /\ result' = Raise(Exc("ValueError", "invalid literal for int() with base 10", 3))
                    /\ pc' = "raised"
                    /\ UNCHANGED max_rows
    /\ queries' = AfterLookup(queries, q)
    /\ UNCHANGED environ

\* the server is asked to run the tool run_saved_query
Call(q, p, m) ==
    /\ Enter(q, p, m)
    /\ sinceList' = (listFirst # NotYet)
    /\ UNCHANGED <<listFirst, listLast, between>>
    /\ UNCHANGED ivars
    /\ UNCHANGED dvars

\* _connect() (lines 38-66) and the connection's __enter__ (line 119)
Connect ==
    /\ pc = "connect"
    /\ LET a == Authenticator(environ) IN
       IF a # "externalbrowser"
       THEN /\ calls' = [calls EXCEPT !.connect = @ + 1]
            /\ pending' = Raise(Exc("ValueError", AuthenticatorError(a), 5))
            /\ pc' = "except"
            /\ UNCHANGED conn
       ELSE /\ calls' = [calls EXCEPT !.connect = @ + 1, !.net = @ + 1,
                                      !.authenticator = a]
            /\ \/ /\ conn' = "open"
                  /\ pc' = "cursor"
                  /\ UNCHANGED pending
               \/ \E n \in TbLens :
                  /\ pending' = Raise(Exc("DatabaseError", "could not connect", n))
                  /\ pc' = "except"
                  /\ UNCHANGED conn
    /\ UNCHANGED <<queries, environ, call, sql, max_rows, cur, resultset, cols,
                   result>>
    /\ UNCHANGED hvars
    /\ UNCHANGED dvars
    /\ UNCHANGED ovars

\* conn.cursor() and the cursor's __enter__ (line 120)
OpenCursor ==
    /\ pc = "cursor"
    /\ \/ /\ cur' = "open"
          /\ pc' = "execute"
          /\ UNCHANGED pending
       \/ \E n \in TbLens :
          /\ pending' = Raise(Exc("InterfaceError", "connection is closed", n))
          /\ pc' = "exit_conn"
          /\ UNCHANGED cur
    /\ calls' = [calls EXCEPT !.cursor = @ + 1]
    /\ UNCHANGED <<queries, environ, call, sql, max_rows, conn, resultset, cols,
                   result>>
    /\ UNCHANGED hvars
    /\ UNCHANGED dvars
    /\ UNCHANGED ovars

\* cur.execute(sql, binds) (lines 118, 121)
Execute ==
    /\ pc = "execute"
    /\ calls' = [calls EXCEPT
                   !.execute = <<[sql |-> sql,
                                  binds |-> Binds(call.query_id, call.params)]>>]
    /\ execSeen' = execSeen \cup
                      {[query_id |-> call.query_id, sql |-> sql,
                        binds |-> Binds(call.query_id, call.params)]}
    /\ UNCHANGED varied
    /\ \/ /\ resultset' \in ResultSets
          /\ pc' = "describe"
          /\ UNCHANGED pending
       \/ \E n \in TbLens :
          /\ pending' = Raise(Exc("ProgrammingError", "SQL compilation error", n))
          /\ pc' = "exit_cur"
          /\ UNCHANGED resultset
    /\ UNCHANGED <<queries, environ, call, sql, max_rows, conn, cur, cols,
                   result>>
    /\ UNCHANGED dvars
    /\ UNCHANGED ovars

\* cols = ... (line 122)
Describe ==
    /\ pc = "describe"
    /\ \/ /\ cols' = ColumnNames(resultset.description)
          /\ pc' = "fetch"
          /\ UNCHANGED pending
       \/ \E n \in TbLens :
          /\ pending' = Raise(Exc("TypeError", "object is not subscriptable", n))
          /\ pc' = "exit_cur"
          /\ UNCHANGED cols
    /\ UNCHANGED <<queries, environ, call, sql, max_rows, conn, cur, resultset,
                   result, calls>>
    /\ UNCHANGED hvars
    /\ UNCHANGED dvars
    /\ UNCHANGED ovars

\* rows = cur.fetchmany(max_rows) and the return statement (lines 123-132)
Fetch ==
    /\ pc = "fetch"
    /\ calls' = [calls EXCEPT !.fetch = <<max_rows>>]
    /\ \/ pending' = Return(SuccessResult(call.query_id, call.params, cols,
                                          FetchMany(resultset, max_rows), max_rows))
       \/ \E n \in TbLens :
          pending' = Raise(Exc("OperationalError", "connection lost", n))
    /\ pc' = "exit_cur"
    /\ UNCHANGED <<queries, environ, call, sql, max_rows, conn, cur, resultset,
                   cols, result>>
    /\ UNCHANGED hvars
    /\ UNCHANGED dvars
    /\ UNCHANGED ovars

\* the cursor's __exit__: leaving "with conn.cursor() as cur" (line 120)
ExitCursor ==
    /\ pc = "exit_cur"
    /\ cur' = AfterExit(cur, pending)
    /\ pc' = "exit_conn"
    /\ UNCHANGED <<queries, environ, call, sql, max_rows, conn, resultset, cols,
                   pending, result, calls>>
    /\ UNCHANGED hvars
    /\ UNCHANGED dvars
    /\ UNCHANGED ovars

\* the connection's __exit__: leaving "with _connect() as conn" (line 119)
ExitConnection ==
    /\ pc = "exit_conn"
    /\ conn' = AfterExit(conn, pending)
    /\ IF pending.kind = "return"
       THEN /\ result' = pending.value
            /\ pc' = "returned"
       ELSE /\ pc' = "except"
            /\ UNCHANGED result
    /\ UNCHANGED <<queries, environ, call, sql, max_rows, cur, resultset, cols,
                   pending, calls>>
    /\ UNCHANGED hvars
    /\ UNCHANGED dvars
    /\ UNCHANGED ovars

\* except Exception as e: return {...} (lines 133-140)
Except ==
    /\ pc = "except"
    /\ IF Caught(pending.exc)
       THEN /\ result' = FailureResult(call.query_id, pending.exc)
            /\ pc' = "returned"
       ELSE /\ result' = pending
            /\ pc' = "raised"
    /\ UNCHANGED <<queries, environ, call, sql, max_rows, conn, cur, resultset,
                   cols, pending, calls>>
    /\ UNCHANGED hvars
    /\ UNCHANGED dvars
    /\ UNCHANGED ovars

ServerNext ==
    \/ \E q \in QueryIds, p \in ParamsInputs, m \in MaxRowsInputs : Call(q, p, m)
    \/ Connect
    \/ OpenCursor
    \/ Execute
    \/ Describe
    \/ Fetch
    \/ ExitCursor
    \/ ExitConnection
    \/ Except

-----------------------------------------------------------------------------
(* run_mcp_tool.py *)

\* A line on a pipe is a sequence of chunks of bytes: a chunk is white space,
\* the newline, a JSON document, other text, or bytes that are not UTF-8.
NL == "\n"
WhiteSpace == {" ", "\t", NL}
BadBytes == "<0xff>"
LogText == "INFO starting server"

\* the three requests of main (lines 45-54, 65-70, 82-96)
Requests ==
    <<[jsonrpc |-> "2.0", id |-> "1", method |-> "initialize"],
      [jsonrpc |-> "2.0", id |-> "2", method |-> "tools/list"],
      [jsonrpc |-> "2.0", id |-> "3", method |-> "tools/call",
       params |-> [name |-> "run_saved_query",
                   arguments |-> [query_id |-> "connector_usage",
                                  params |-> MonthYear]]]>>
NumRequests == Len(Requests)
Response(id) == [jsonrpc |-> "2.0", id |-> id, result |-> "result of " \o id]
Notification == [jsonrpc |-> "2.0", method |-> "notifications/message"]
Messages ==
    {Requests[i] : i \in 1..NumRequests}
    \cup {Response(Requests[i].id) : i \in 1..NumRequests}
    \cup {Notification}
IsResponse(v) == "result" \in DOMAIN v

\* json.dumps(message)
DumpsParams(p) ==
    "{name: " \o p.name \o ", arguments: {query_id: " \o p.arguments.query_id
      \o ", params: "
      \o (IF p.arguments.params = MonthYear THEN "{month: 1, year: 2026}" ELSE "{}")
      \o "}}"
Dumps(m) ==
    "{jsonrpc: " \o m.jsonrpc
      \o (IF "id" \in DOMAIN m THEN ", id: " \o m.id ELSE "")
      \o (IF "method" \in DOMAIN m THEN ", method: " \o m.method ELSE "")
      \o (IF "params" \in DOMAIN m THEN ", params: " \o DumpsParams(m.params) ELSE "")
      \o (IF "result" \in DOMAIN m THEN ", result: " \o m.result ELSE "")
      \o "}"

\* json.loads(text): the value, or JSONDecodeError
JsonLoads(text) ==
    IF Len(text) = 1 /\ \E m \in Messages : Dumps(m) = text[1]
    THEN [ok |-> TRUE, value |-> CHOOSE m \in Messages : Dumps(m) = text[1]]
    ELSE [ok |-> FALSE]

\* bytes.decode('utf-8'): the text, or UnicodeDecodeError
Decode(bytes) ==
    IF \E i \in 1..Len(bytes) : bytes[i] = BadBytes
    THEN [ok |-> FALSE]
    ELSE [ok |-> TRUE, text |-> bytes]

\* str.strip()
RECURSIVE LStrip(_)
LStrip(t) == IF t # <<>> /\ Head(t) \in WhiteSpace THEN LStrip(Tail(t)) ELSE t
RECURSIVE RStrip(_)
RStrip(t) ==
    IF t # <<>> /\ t[Len(t)] \in WhiteSpace THEN RStrip(SubSeq(t, 1, Len(t) - 1)) ELSE t
Strip(t) == RStrip(LStrip(t))

\* message_str + '\n' (line 7)
WireLine(m) == <<Dumps(m), NL>>

\* the lines, other than responses, that the server writes to its stdout
NoiseLines ==
    {<<NL>>,
     <<" ", " ", NL>>,
     <<LogText, NL>>,
     <<" ", LogText, " ", Dumps(Response("1")), NL>>,
     <<BadBytes, NL>>,
     WireLine(Notification)}

At(where, n) == [at |-> where, n |-> n]

DriverInit ==
    /\ dpc = At("send", 1)
    /\ stdin = <<>>
    /\ stdout = <<>>
    /\ srv = [alive |-> TRUE, crashed |-> FALSE, noise |-> 0,
              errq |-> 0, blocked |-> FALSE, waited |-> FALSE]
    /\ rawline = <<>>
    /\ consumed = <<>>
    /\ responses = [n \in 1..NumRequests |-> NotYet]
    /\ sent = <<>>

\* one pass of the loop body of read_rpc_response on the value of readline()
\* (lines 15-24): return a value, go round again, or raise
ReadStep(raw) ==
    LET d == Decode(raw) IN
    IF ~d.ok THEN [do |-> "raise", exc |-> "UnicodeDecodeError"]
    ELSE LET line == Strip(d.text) IN
         IF line # <<>>
         THEN LET j == JsonLoads(line) IN
              IF j.ok THEN [do |-> "return", value |-> j.value]
              ELSE [do |-> "continue"]
         ELSE [do |-> "return", value |-> None]

\* send_rpc_message(server_process, message) (lines 5-8, called at 56, 72, 98)
Send(n) ==
    /\ dpc = At("send", n)
    /\ IF srv.alive
       THEN /\ stdin' = Append(stdin, WireLine(Requests[n]))
            /\ sent' = Append(sent, Requests[n].id)
            /\ dpc' = At("read", n)
       ELSE \* BrokenPipeError: the try block is left for the finally clause
            /\ dpc' = [at |-> "finally", n |-> n, exc |-> "BrokenPipeError"]
            /\ UNCHANGED <<stdin, sent>>
    /\ consumed' = <<>>
    /\ UNCHANGED <<stdout, srv, rawline, responses>>
    /\ UNCHANGED svars
    /\ UNCHANGED ovars

\* process.stdout.readline(): the next line, or b'' at end of file; it blocks
\* while the pipe is empty and the server holds its end open
ReadLine(n) ==
    /\ dpc = At("read", n)
    /\ stdout # <<>> \/ ~srv.alive
    /\ LET raw == IF stdout # <<>> THEN Head(stdout) ELSE <<>>
           step == ReadStep(raw)
       IN  /\ rawline' = raw
           /\ consumed' = Append(consumed, raw)
           /\ stdout' = IF stdout # <<>> THEN Tail(stdout) ELSE stdout
           /\ CASE step.do = "return" ->
                     /\ responses' = [responses EXCEPT ![n] = step.value]
                     /\ dpc' = IF n < NumRequests THEN At("send", n + 1)
                               ELSE At("finally", n)
                [] step.do = "continue" ->
                     /\ UNCHANGED <<responses, dpc>>
                [] step.do = "raise" ->
                     /\ dpc' = [at |-> "finally", n |-> n, exc |-> step.exc]
                     /\ UNCHANGED responses
    /\ UNCHANGED <<stdin, srv, sent>>
    /\ UNCHANGED svars
    /\ UNCHANGED ovars

\* the finally clause (lines 102-108): terminate the server, wait for it and
\* only then read what it wrote to its stderr
Finally ==
    /\ dpc.at = "finally"
    /\ srv' = [srv EXCEPT !.alive = FALSE, !.blocked = FALSE, !.errq = 0,
                          !.waited = TRUE]
    /\ dpc' = [dpc EXCEPT !.at = IF "exc" \in DOMAIN dpc THEN "raised" ELSE "done"]
    /\ UNCHANGED <<stdin, stdout, rawline, consumed, responses, sent>>
    /\ UNCHANGED svars
    /\ UNCHANGED ovars

\* The server process (mcp.run(transport="stdio"), server.py line 143): it
\* answers the requests on its stdin one by one, in order, each with the
\* response that carries the request's id. A tools/call request for
\* run_saved_query makes it invoke the handler with the request's arguments
\* (max_rows takes its default), and the response is written once the handler
\* has finished. The process has one thread: while it is blocked in a write
\* it does nothing else.
ServerRespond ==
    /\ srv.alive /\ ~srv.blocked
    /\ stdin # <<>>
    /\ LET req == JsonLoads(Strip(Head(stdin))).value IN
       /\ IF req.method = "tools/call" /\ req.params.name = "run_saved_query"
          THEN Enter(req.params.arguments.query_id, req.params.arguments.params,
                     PyInt(DefaultMaxRows))
          ELSE UNCHANGED svars
       /\ stdout' = IF req.method = "tools/call" /\ pc' \notin {"returned", "raised"}
                    THEN stdout
                    ELSE Append(stdout, WireLine(Response(req.id)))
    /\ stdin' = Tail(stdin)
    /\ UNCHANGED <<dpc, srv, rawline, consumed, responses, sent>>
    /\ UNCHANGED ovars

\* the server writes a chunk of log output to its stderr, the pipe of line 37
\* that main reads only at line 106: the write blocks when the pipe is full
ServerLog ==
    /\ srv.alive /\ ~srv.blocked
    /\ srv' = IF srv.errq < StderrCapacity
              THEN [srv EXCEPT !.errq = @ + 1]
              ELSE [srv EXCEPT !.blocked = TRUE]
    /\ UNCHANGED <<dpc, stdin, stdout, rawline, consumed, responses, sent>>
    /\ UNCHANGED svars
    /\ UNCHANGED ovars

\* the server writes a line that is no response
ServerNoise(l) ==
    /\ srv.alive /\ ~srv.blocked
    /\ srv.noise < MaxNoise
    /\ stdout' = Append(stdout, l)
    /\ srv' = [srv EXCEPT !.noise = @ + 1]
    /\ UNCHANGED <<dpc, stdin, rawline, consumed, responses, sent>>
    /\ UNCHANGED svars
    /\ UNCHANGED ovars

\* the server process ends by itself
ServerExit ==
    /\ srv.alive /\ ~srv.blocked
    /\ srv' = [srv EXCEPT !.alive = FALSE, !.crashed = TRUE]
    /\ UNCHANGED <<dpc, stdin, stdout, rawline, consumed, responses, sent>>
    /\ UNCHANGED svars
    /\ UNCHANGED ovars

DriverNext ==
    \/ \E n \in 1..NumRequests : Send(n)
    \/ \E n \in 1..NumRequests : ReadLine(n)
    \/ Finally
    \/ ServerRespond
    \/ \E l \in NoiseLines : ServerNoise(l)
    \/ ServerLog
    \/ ServerExit

-----------------------------------------------------------------------------
(* server.py: list_saved_queries and _normalize_ilike *)

\* the dict literal of lines 87-91
ParamsSchema ==
    [month |-> "int (required, 1..12)",
     year |-> "int (required, 2000..2100)",
     connector_ilike |-> "string (optional, e.g. 'salesforce' or '%sales%')"]

\* the value list_saved_queries returns (lines 85-92)
ListResultOfValues(d) ==
    [queries |-> [i \in 1..Len(SortedKeys(d)) |-> d[SortedKeys(d)[i]]],
     params_schema |-> ParamsSchema]
ListResult(d) == [queries |-> SortedKeys(d), params_schema |-> ParamsSchema]

\* how the latest run_saved_query invocation ended
Outcome == IF pc = "returned" /\ result.ok THEN "ok" ELSE "failed"

ListInit ==
    /\ listFirst = NotYet
    /\ listLast = NotYet
    /\ sinceList = FALSE
    /\ between = {}

\* the server is asked to run the tool list_saved_queries (lines 83-93)
ListSavedQueries ==
    /\ pc \in {"idle", "returned", "raised"}
    /\ listFirst' = IF listFirst = NotYet THEN ListResult(queries) ELSE listFirst
    /\ listLast' = ListResult(queries)
    /\ between' = IF sinceList THEN between \cup {Outcome} ELSE between
    /\ sinceList' = FALSE
    /\ UNCHANGED svars
    /\ UNCHANGED ivars
    /\ UNCHANGED dvars

\* the arguments the tools are invoked with under ToolsSpec
ToolsParams == {None, MonthYear}
ToolsMaxRows == {PyInt(0), PyInt(DefaultMaxRows), PyStr("many")}

ToolsNext ==
    \/ \E q \in QueryIds, p \in ToolsParams, m \in ToolsMaxRows : Call(q, p, m)
    \/ ListSavedQueries
    \/ Connect
    \/ OpenCursor
    \/ Execute
    \/ Describe
    \/ Fetch
    \/ ExitCursor
    \/ ExitConnection
    \/ Except

\* The characters of a pattern: a blank, the wildcard marker "%", the
\* one-character wildcard "_" of ILIKE, and a letter. A str is the sequence of
\* its characters.
PatternChars == {" ", "%", "_", "a"}
Patterns == UNION {[1..n -> PatternChars] : n \in 0..MaxPatLen}
PatternInputs == {None} \cup {PyStr(t) : t \in Patterns}

\* "%" in p
Contains(t, c) == \E i \in 1..Len(t) : t[i] = c

\* _normalize_ilike(pattern) (lines 68-77); str(pattern) of a str is the str
NormalizeIlikeNoStrip(pattern) ==
    IF pattern = None THEN None
    ELSE LET p == pattern.v IN
         IF p = <<>> THEN None
         ELSE IF ~Contains(p, "%") THEN PyStr(<<"%">> \o p \o <<"%">>)
         ELSE PyStr(p)
NormalizeIlike(pattern) ==
    IF pattern = None THEN None
    ELSE LET p == Strip(pattern.v) IN
         IF p = <<>> THEN None
         ELSE IF ~Contains(p, "%") THEN PyStr(<<"%">> \o p \o <<"%">>)
         ELSE PyStr(p)

IlikeIdle ==
    /\ ipattern = None
    /\ iresult = NotYet

\* _normalize_ilike(ipattern) is called and returns
NormalizeCall ==
    /\ iresult = NotYet
    /\ iresult' = NormalizeIlike(ipattern)
    /\ UNCHANGED ipattern
    /\ UNCHANGED lvars
    /\ UNCHANGED svars
    /\ UNCHANGED dvars

IlikeNext == NormalizeCall

-----------------------------------------------------------------------------
Init == ServerInit /\ DriverInit /\ ListInit /\ IlikeIdle

Next == ServerNext

Spec == Init /\ [][Next]_vars

ToolsSpec == Init /\ [][ToolsNext]_vars

DriverSpec == Init /\ [][DriverNext]_vars

\* _normalize_ilike applied to every pattern of PatternInputs
IlikeInit ==
    /\ ServerInit /\ DriverInit /\ ListInit
    /\ ipattern \in PatternInputs
    /\ iresult = NotYet

IlikeSpec == IlikeInit /\ [][IlikeNext]_vars

-----------------------------------------------------------------------------
(* Properties of run_saved_query (checked under Spec) *)

Whitelisted == pc # "idle" /\ call.query_id \in DOMAIN QUERIES
Rejected == pc # "idle" /\ call.query_id \notin DOMAIN QUERIES

\* seq lists the elements of S once each, in Python's string order
IsSortedListOf(seq, S) ==
    /\ {seq[i] : i \in 1..Len(seq)} = S
    /\ \A i, j \in 1..Len(seq) : i < j => Rank(seq[i]) < Rank(seq[j])

\* C1: a query_id that is no key of QUERIES, with any params and max_rows, makes
\* run_saved_query return {ok: False, error: "Unknown query_id '<id>'", allowed:
\* the sorted whitelist keys}, and neither _connect nor the connector's connect
\* is called in that invocation.
C1_UnknownQueryRejected ==
    Rejected =>
        /\ pc = "returned"
        /\ DOMAIN result = {"ok", "error", "allowed"}
        /\ result.ok = FALSE
        /\ result.error = "Unknown query_id '" \o call.query_id \o "'"
        /\ IsSortedListOf(result.allowed, DOMAIN QUERIES)
        /\ calls = NoCalls
        /\ conn = "none" /\ cur = "none"

C1_Witness ==
    /\ Rejected
    /\ pc = "returned"
    /\ call.query_id = "does_not_exist"
    /\ call.params = MonthYear
    /\ call.max_rows = PyStr("many")
    /\ result.allowed = <<"basic_query">>

\* C2: when run_saved_query has returned (or raised) for a whitelisted query_id,
\* whether it succeeded or failed at connect, at cursor creation, at execute,
\* at the column metadata or at fetch, no connection and no cursor that the
\* invocation opened is still open.
C2_ReleasedOnEveryExit ==
    (Whitelisted /\ pc \in {"returned", "raised"}) =>
        /\ conn \in {"none", "closed"}
        /\ cur \in {"none", "closed"}
        /\ calls.net > 0 /\ "ok" \in DOMAIN result /\ result.ok => conn = "closed"

C2_Witness ==
    /\ Whitelisted
    /\ pc = "returned"
    /\ result.ok = FALSE
    /\ result.error_type = "OperationalError"
    /\ calls.fetch # <<>>
    /\ conn = "closed"
    /\ cur = "closed"

\* t is the last Min(Len(tb), TracebackTail) lines of tb
IsTailOf(t, tb) ==
    /\ Len(t) = Min(Len(tb), TracebackTail)
    /\ \A i \in 1..Len(t) : t[i] = tb[Len(tb) - Len(t) + i]

\* C3: for a whitelisted query_id, an exception raised by connect, cursor
\* creation, execute, the column metadata or fetch never leaves
\* run_saved_query: the invocation returns {ok: False, query_id, error_type,
\* error, traceback_tail} with error_type the exception's class name and
\* traceback_tail the last lines of the traceback, at most 20 of them.
C3_FailureIsCaught ==
    /\ (Whitelisted /\ pc = "raised") => calls.connect = 0
    /\ (Whitelisted /\ pc = "returned" /\ pending.kind = "raise") =>
          /\ DOMAIN result =
                {"ok", "query_id", "error_type", "error", "traceback_tail"}
          /\ result.ok = FALSE
          /\ result.query_id = call.query_id
          /\ result.error_type = pending.exc.type
          /\ result.error = pending.exc.msg
          /\ Len(result.traceback_tail) <= TracebackTail
          /\ IsTailOf(result.traceback_tail, pending.exc.tb)

C3_Witness ==
    /\ Whitelisted
    /\ pc = "returned"
    /\ pending.kind = "raise"
    /\ pending.exc.type = "ProgrammingError"
    /\ Len(pending.exc.tb) > TracebackTail
    /\ Len(result.traceback_tail) = TracebackTail
    /\ result.traceback_tail[1] = Len(pending.exc.tb) - TracebackTail + 1

\* min(max(n, 1), 5000)
ClaimedLimit(n) == Min(Max(n, 1), RowLimitCap)

\* C4: for a whitelisted query_id and any integer max_rows (0, negative and
\* above 5000 included), the limit passed to fetchmany and reported as
\* row_limit is min(max(max_rows, 1), 5000): it lies in [1, 5000] and is
\* max_rows itself when 1 <= max_rows <= 5000.
C4_RowLimitClamped ==
    (Whitelisted /\ IntOk(call.max_rows)) =>
        LET n == call.max_rows.v IN
        /\ max_rows = ClaimedLimit(n)
        /\ 1 <= max_rows /\ max_rows <= RowLimitCap
        /\ (1 <= n /\ n <= RowLimitCap) => max_rows = n
        /\ calls.fetch # <<>> => calls.fetch = <<ClaimedLimit(n)>>
        /\ (pc = "returned" /\ result.ok) => result.row_limit = ClaimedLimit(n)

C4_Witness ==
    /\ Whitelisted
    /\ pc = "returned"
    /\ result.ok
    /\ call.max_rows = PyInt(-1)
    /\ calls.fetch = <<1>>
    /\ result.row_limit = 1
    /\ resultset.avail > 1

\* C8: a successful result has row_count_returned = len(rows) <= row_limit and
\* one value per column in every row, for every result set of the cursor, the
\* one with no column metadata included.
C8_ResultShape ==
    (pc = "returned" /\ result.ok) =>
        /\ result.row_count_returned = Len(result.rows)
        /\ Len(result.rows) <= result.row_limit
        /\ \A i \in 1..Len(result.rows) :
              Len(result.rows[i]) = Len(result.columns)
        /\ Len(result.columns) = Width(resultset)
        /\ Len(result.rows) = Min(resultset.avail, result.row_limit)

C8_Witness ==
    /\ pc = "returned"
    /\ result.ok
    /\ Len(result.columns) = MaxCols
    /\ Len(result.rows) = result.row_limit
    /\ resultset.avail > result.row_limit
    /\ result.row_limit > 1

\* C9: the SQL text that run_saved_query passes to cursor.execute is exactly
\* the template QUERIES[query_id], whatever params and max_rows the invocation
\* was given: any two cursor.execute calls made for the same query_id, in this
\* or in earlier invocations, got the same SQL text and the same binds.
C9_SqlIsTheTemplate ==
    /\ calls.execute # <<>> => calls.execute[1].sql = QUERIES[call.query_id]
    /\ \A a \in execSeen :
          /\ a.sql = QUERIES[a.query_id]
          /\ \A b \in execSeen :
                a.query_id = b.query_id => (a.sql = b.sql /\ a.binds = b.binds)

C9_Witness ==
    /\ varied
    /\ calls.execute # <<>>
    /\ call.params = MonthYear
    /\ call.max_rows = PyInt(RowLimitCap + 1)
    /\ pc = "returned"
    /\ result.ok
    /\ result.params_used = MonthYear

\* C11: for every input (query_id, params, max_rows) run_saved_query returns a
\* result that carries an ok field and never raises: an error raised anywhere
\* inside it, the conversion of max_rows to the row limit included, becomes a
\* structured ok: False result.
C11_EveryErrorIsStructured ==
    pc \in {"returned", "raised"} =>
        /\ pc = "returned"
        /\ "ok" \in DOMAIN result

DisallowedAuthenticator == environ \notin {Unset, "externalbrowser"}

\* C12: with SNOWFLAKE_AUTHENTICATOR set to a value other than
\* 'externalbrowser', _connect fails before snowflake.connector.connect is
\* called: no connector call is made and no connection exists, and
\* run_saved_query for a whitelisted query_id returns ok: False with a
\* ValueError whose message quotes the disallowed value. With the variable
\* unset, the connector is called with authenticator 'externalbrowser'.
C12_SsoOnly ==
    /\ DisallowedAuthenticator =>
          /\ calls.net = 0
          /\ conn = "none" /\ cur = "none"
          /\ (Whitelisted /\ pc = "returned") =>
                /\ calls.connect = 1
                /\ result.ok = FALSE
                /\ result.error_type = "ValueError"
                /\ result.error =
                      "SSO-only server: SNOWFLAKE_AUTHENTICATOR must be "
                        \o "'externalbrowser' (got '" \o environ \o "')"
    /\ (environ = Unset /\ calls.connect > 0) =>
          /\ calls.net = calls.connect
          /\ calls.authenticator = "externalbrowser"

C12_Witness ==
    /\ environ = "password"
    /\ Whitelisted
    /\ pc = "returned"
    /\ calls.connect = 1
    /\ calls.net = 0
    /\ result.error_type = "ValueError"

\* C16: within one run_saved_query invocation the cursor's lifetime is nested
\* inside the connection's: while the cursor is open the connection is open,
\* the connection is not closed before the cursor, at most one connection and
\* one cursor are opened, and no connection or cursor is open between
\* invocations.
C16_CursorNestedInConnection ==
    /\ cur = "open" => conn = "open"
    /\ cur # "none" => conn # "none"
    /\ conn = "closed" => cur # "open"
    /\ calls.connect <= 1 /\ calls.net <= 1 /\ calls.cursor <= 1
    /\ cur # "none" => calls.cursor = 1
    /\ conn # "none" => calls.net = 1
    /\ pc \in {"idle", "returned", "raised"} => (conn # "open" /\ cur # "open")

C16_Witness ==
    /\ pc = "exit_conn"
    /\ pending.kind = "return"
    /\ calls.cursor = 1
    /\ cur = "closed"
    /\ conn = "open"

-----------------------------------------------------------------------------
(* Properties of the two tools together (checked under ToolsSpec) *)

\* C13: list_saved_queries cannot fail and has no side effects: it leaves the
\* state of the server as it found it, and every call of it, with
\* run_saved_query invocations that succeeded or failed in between, returns
\* the value the first call returned, whose 'queries' is the list of the
\* whitelist keys in sorted order.
C13_ListIsConstant ==
    /\ [](listLast # NotYet =>
            /\ listLast = listFirst
            /\ DOMAIN listLast = {"queries", "params_schema"}
            /\ IsSortedListOf(listLast.queries, DOMAIN QUERIES)
            /\ listLast.params_schema = ParamsSchema)
    /\ [][ListSavedQueries => (svars' = svars /\ listLast' # NotYet)]_vars

C13_Witness ==
    /\ listLast # NotYet
    /\ ~sinceList
    /\ between = {"ok", "failed"}
    /\ listLast.queries = <<"basic_query">>

\* C14: QUERIES is never changed: after any sequence of list_saved_queries and
\* run_saved_query invocations, with any arguments and any outcome, its keys
\* and the SQL text of each key are the ones of process start.
C14_WhitelistImmutable ==
    /\ DOMAIN queries = {"basic_query"}
    /\ queries.basic_query = BasicQuerySql
    /\ queries = QUERIES

C14_Witness ==
    /\ queries = QUERIES
    /\ Rejected
    /\ pc = "returned"
    /\ execSeen # {}
    /\ "failed" \in between
    /\ listLast # NotYet

-----------------------------------------------------------------------------
(* Properties of _normalize_ilike (checked under IlikeSpec) *)

\* C15: for every string pattern _normalize_ilike returns a value (it never
\* raises): None when the pattern stripped of surrounding white space is
\* empty, the stripped pattern itself when it contains the wildcard marker
\* "%", and otherwise the stripped pattern wrapped as %pattern%; a result
\* other than None always contains "%". For None it returns None.
C15_NormalizeIlike ==
    iresult # NotYet =>
        IF ipattern = None THEN iresult = None
        ELSE LET t == Strip(ipattern.v) IN
             /\ t = <<>> => iresult = None
             /\ (t # <<>> /\ Contains(t, "%")) => iresult = PyStr(t)
             /\ (t # <<>> /\ ~Contains(t, "%")) =>
                    /\ iresult # None
                    /\ Len(iresult.v) = Len(t) + 2
                    /\ iresult.v[1] = "%" /\ iresult.v[Len(t) + 2] = "%"
                    /\ \A i \in 1..Len(t) : iresult.v[i + 1] = t[i]
             /\ iresult # None => (iresult.py = "str" /\ Contains(iresult.v, "%"))

C15_Witness ==
    /\ ipattern = PyStr(<<" ", "a", " ">>)
    /\ iresult = PyStr(<<"%", "a", "%">>)

-----------------------------------------------------------------------------
(* Properties of the driver (checked under DriverSpec) *)

\* read_rpc_response, called for request n, has just returned
JustReturned(n) ==
    \/ dpc = At("send", n + 1)
    \/ n = NumRequests /\ dpc = At("finally", n)

\* the ids of the responses the driver has read from the server's stdout
ReceivedIds ==
    {responses[k].id : k \in {j \in 1..NumRequests : IsResponse(responses[j])}}

WhiteSpaceOnly(raw) == raw # <<>> /\ \A i \in 1..Len(raw) : raw[i] \in WhiteSpace

\* a line that is not empty and is not a well-formed JSON document
NotJsonLine(raw) ==
    /\ raw # <<>>
    /\ ~WhiteSpaceOnly(raw)
    /\ \/ ~Decode(raw).ok
       \/ ~JsonLoads(Strip(Decode(raw).text)).ok

\* C5: read_rpc_response returns None only at the end of the server's output
\* stream (readline() gave b''): an empty or whitespace-only line on a stream
\* that is still open does not end the receive.
C5_NoneOnlyAtEndOfStream ==
    \A n \in 1..NumRequests :
        (JustReturned(n) /\ responses[n] = None) => rawline = <<>>

\* C6: the response to request N has been received by the driver before
\* request N+1 is written to the server's stdin; the driver never has two
\* requests in flight, whatever other lines the server writes.
C6_ResponseBeforeNextRequest ==
    /\ \A i \in 1..(Len(sent) - 1) : sent[i] \in ReceivedIds
    /\ Cardinality({i \in 1..Len(sent) : sent[i] \notin ReceivedIds}) <= 1

\* C7: against a server that answers every request once and in order, with
\* other lines in between, the value the driver takes as the response to the
\* request with id X is the server's response with id X, and once main has left
\* its try block every request has its response.
C7_ResponsePairedById ==
    ~srv.crashed =>
        /\ \A n \in 1..NumRequests :
              responses[n] # NotYet => responses[n] = Response(Requests[n].id)
        /\ dpc.at \in {"finally", "done", "raised"} =>
              \A n \in 1..NumRequests : responses[n] # NotYet

\* C10: a non-empty line that is not well-formed JSON never makes
\* read_rpc_response raise or return: the line is discarded and the receive
\* goes on waiting for the next line.
C10_NonJsonLineIsDiscarded ==
    (consumed # <<>> /\ NotJsonLine(consumed[Len(consumed)])) => dpc.at = "read"

\* C17: the driver run never deadlocks with the server and reaps it on every
\* exit path: main is never left waiting in readline() for a server that is
\* itself blocked writing to the stderr pipe main does not read, whatever
\* amount of output the server writes there; and once main has ended, normally
\* or by an exception, the server process has been terminated and waited for.
C17_NoDeadlockAndReaped ==
    /\ ~(/\ dpc.at = "read"
         /\ stdout = <<>>
         /\ srv.alive
         /\ srv.blocked)
    /\ dpc.at \in {"done", "raised"} => (~srv.alive /\ srv.waited)

\* C18: the tools/call request of the driver names run_saved_query with
\* query_id 'connector_usage', which is no key of QUERIES: in every driver run
\* the handler, once invoked, has returned {ok: False, error: "Unknown
\* query_id 'connector_usage'", allowed: ['basic_query']}, and no connection
\* is ever opened.
C18_DriverNeverReachesWarehouse ==
    /\ Requests[NumRequests].params.name = "run_saved_query"
    /\ Requests[NumRequests].params.arguments.query_id = "connector_usage"
    /\ calls.connect = 0 /\ calls.net = 0
    /\ conn = "none" /\ cur = "none"
    /\ pc \in {"idle", "returned"}
    /\ pc = "returned" =>
          /\ call.query_id = "connector_usage"
          /\ call.params = MonthYear
          /\ result = [ok |-> FALSE,
                       error |-> "Unknown query_id 'connector_usage'",
                       allowed |-> <<"basic_query">>]

C18_Witness ==
    /\ dpc.at = "done"
    /\ pc = "returned"
    /\ result.ok = FALSE
    /\ result.allowed = <<"basic_query">>
    /\ responses[NumRequests] = Response(Requests[NumRequests].id)

=============================================================================
